---- MODULE Spec2Model ----
\* Model of the BingeBox API gateway (src/server/server.js): the TMDB
\* pass-through handlers with their helper fetchFromTMDB, the
\* /api/datastrax/library handler, and the embedding endpoint described in
\* spec.md (server.js holds no code for it).
EXTENDS Integers, Sequences, FiniteSets, TLC

\* ------------------------------------------------------------------ bounds

\* Number of requests the server handles concurrently in one behaviour.
NumReq == 2

\* limit: 50 of the options passed to collection.find.
Limit == 50

Reqs == 1..NumReq

\* ------------------------------------------------------- JavaScript values

\* A JavaScript / JSON value is a record with a "type" field.
JsUndefined == [type |-> "undefined"]
JsNull      == [type |-> "null"]
JsZero      == [type |-> "number", num |-> 0]
JsNumber    == [type |-> "number", num |-> 42]
JsFalse     == [type |-> "boolean", bool |-> FALSE]
JsEmptyStr  == [type |-> "string", str |-> ""]
JsText      == [type |-> "string", str |-> "space heist"]
JsArray     == [type |-> "object", items |-> 0]

\* The Express response object, as returned by res.status(..).json(..).
ResObject == [type |-> "res"]

\* JavaScript truthiness, as used by `if (data)`, `!query` and `||`.
Truthy(v) ==
    CASE v.type = "undefined" -> FALSE
      [] v.type = "null"      -> FALSE
      [] v.type = "number"    -> v.num # 0
      [] v.type = "boolean"   -> v.bool
      [] v.type = "string"    -> v.str # ""
      [] OTHER                -> TRUE

\* typeof v
TypeOf(v) == IF v.type = "null" \/ v.type = "res" THEN "object" ELSE v.type

\* Bodies the TMDB API may answer with.
TmdbPage       == [type |-> "object", results |-> "page"]
TmdbStatusBody == [type |-> "object", status_message |-> "not found"]
TmdbErrorBody  == [type |-> "object", error |-> [message |-> "Invalid id"]]
TmdbEmptyError == [type |-> "object", error |-> [message |-> ""]]

UpstreamJson ==
    {JsNull, JsZero, JsFalse, JsEmptyStr, TmdbPage, TmdbStatusBody,
     TmdbErrorBody, TmdbEmptyError}

\* HTTP statuses the TMDB API may answer with.
UpstreamStatuses == {200, 401, 404}

\* response.ok
Ok(status) == status >= 200 /\ status <= 299

\* Values a client may send as `expression`.
Expressions == {JsUndefined, JsNull, JsZero, JsNumber, JsEmptyStr, JsText, JsArray}

\* Messages of the errors collection.find may throw.
StoreErrors == {"connect ETIMEDOUT", "Invalid filter"}

\* Number of documents of the collection that match a query.
DocCounts == {0, 1, Limit, Limit + 1}

\* ------------------------------------------------------------------- state

VARIABLES
    alive,      \* the server process is running
    pc,         \* pc[r]: where the handler of request r stands
    kind,       \* kind[r]: "none", "tmdb" or "library"
    input,      \* input[r]: req.body.expression of a library request
    upstream,   \* upstream[r]: what the external call of r produced
    data,       \* data[r]: the handler's local `data`
    sent,       \* sent[r]: the responses written to the client of r
    attempts,   \* attempts[r]: number of res.json calls made for r
    calls,      \* calls[r]: the external services called for r, in order
    escaped,    \* escaped[r]: an exception left the handler of r
    epc,        \* where the handler of the /api/embed request stands
    texts,      \* req.body.texts of the /api/embed request
    provider,   \* what the embedding provider produced
    eresp,      \* the responses written to the client of /api/embed
    ecalls      \* number of calls made to the embedding provider

svars == <<alive, pc, kind, input, upstream, data, sent, attempts, calls, escaped>>
evars == <<epc, texts, provider, eresp, ecalls>>
vars == <<svars, evars>>

NoUpstream == [call |-> "none"]

Init ==
    /\ alive = TRUE
    /\ pc = [r \in Reqs |-> "idle"]
    /\ kind = [r \in Reqs |-> "none"]
    /\ input = [r \in Reqs |-> JsUndefined]
    /\ upstream = [r \in Reqs |-> NoUpstream]
    /\ data = [r \in Reqs |-> JsUndefined]
    /\ sent = [r \in Reqs |-> <<>>]
    /\ attempts = [r \in Reqs |-> 0]
    /\ calls = [r \in Reqs |-> <<>>]
    /\ escaped = [r \in Reqs |-> FALSE]
    /\ epc = "idle"
    /\ texts = JsUndefined
    /\ provider = NoUpstream
    /\ eresp = <<>>
    /\ ecalls = 0

\* ------------------------------------------------------------- res.json

Response(status, body) == [status |-> status, body |-> body]

ErrorBody(msg) == [error |-> msg]

\* JSON.stringify throws on the circular response object.
Circular(v) == "type" \in DOMAIN v /\ v.type = "res"

\* res.status(status).json(body) for request r: one more attempt; the body is
\* serialised first (throwing on a circular value), and a response whose
\* headers are already sent cannot be sent again.
ResJsonThrows(r, body) == Circular(body) \/ Len(sent[r]) > 0

ResJson(r, status, body) ==
    /\ attempts' = [attempts EXCEPT ![r] = @ + 1]
    /\ IF ResJsonThrows(r, body)
       THEN sent' = sent
       ELSE sent' = [sent EXCEPT ![r] = Append(@, Response(status, body))]

\* ----------------------------------------------------------- TMDB routes

ServerErrorMsg == "Server error. Please try again later."

HttpErrorMsg(status) == "HTTP error: " \o ToString(status)

\* errorBody?.error?.message || `HTTP error: ${response.status}`
ErrorMessage(errorBody, status) ==
    IF /\ errorBody.type = "object"
       /\ "error" \in DOMAIN errorBody
       /\ errorBody.error.message # ""
    THEN errorBody.error.message
    ELSE HttpErrorMsg(status)

\* app.get("/api/..."): the handler builds the URL and calls fetchFromTMDB,
\* which starts fetch(url).
TmdbRequest(r) ==
    /\ alive
    /\ UNCHANGED evars
    /\ pc[r] = "idle"
    /\ kind' = [kind EXCEPT ![r] = "tmdb"]
    /\ calls' = [calls EXCEPT ![r] = Append(@, "tmdb")]
    /\ pc' = [pc EXCEPT ![r] = "fetch"]
    /\ UNCHANGED <<alive, input, upstream, data, sent, attempts, escaped>>

\* catch (error) of fetchFromTMDB: 500 and the generic message; the helper
\* returns what res.status(500).json(..) returns, the response object.
TmdbCatch(r, up) ==
    /\ upstream' = [upstream EXCEPT ![r] = up]
    /\ ResJson(r, 500, ErrorBody(ServerErrorMsg))
    /\ data' = [data EXCEPT ![r] = ResObject]
    /\ pc' = [pc EXCEPT ![r] = "returned"]
    /\ UNCHANGED <<alive, kind, input, calls, escaped>>

\* await fetch(url) rejects (network error).
FetchRejects(r) ==
    /\ alive
    /\ UNCHANGED evars
    /\ pc[r] = "fetch"
    /\ TmdbCatch(r, [call |-> "threw"])

\* await fetch(url) resolves with a response of some status; the helper goes
\* on to await response.json().
FetchResolves(r) ==
    /\ alive
    /\ UNCHANGED evars
    /\ pc[r] = "fetch"
    /\ \E status \in UpstreamStatuses :
          upstream' = [upstream EXCEPT ![r] = [call |-> "resolved", status |-> status]]
    /\ pc' = [pc EXCEPT ![r] = "parse"]
    /\ UNCHANGED <<alive, kind, input, data, sent, attempts, calls, escaped>>

\* await response.json() rejects (the body is not JSON).
ParseRejects(r) ==
    /\ alive
    /\ UNCHANGED evars
    /\ pc[r] = "parse"
    /\ TmdbCatch(r, [call |-> "unparsable", status |-> upstream[r].status])

\* What fetchFromTMDB does once the body json is parsed: for a non-OK
\* status it answers with that status and the error message and returns
\* the response object; otherwise it returns the parsed data.
TmdbParsed(r, json) ==
    /\ upstream' = [upstream EXCEPT ![r] =
                      [call |-> "parsed", status |-> upstream[r].status, json |-> json]]
    /\ IF ~Ok(upstream[r].status)
       THEN /\ ResJson(r, upstream[r].status,
                       ErrorBody(ErrorMessage(json, upstream[r].status)))
            /\ data' = [data EXCEPT ![r] = ResObject]
       ELSE /\ data' = [data EXCEPT ![r] = json]
            /\ UNCHANGED <<sent, attempts>>
    /\ pc' = [pc EXCEPT ![r] = "returned"]
    /\ UNCHANGED <<alive, kind, input, calls, escaped>>

\* await response.json() resolves.
ParseResolves(r) ==
    /\ alive
    /\ UNCHANGED evars
    /\ pc[r] = "parse"
    /\ \E json \in UpstreamJson : TmdbParsed(r, json)

\* Back in the route handler: `if (data) res.json(data);`.  A throw of
\* res.json is caught by nothing: the async handler's promise rejects.
TmdbRelay(r) ==
    IF Truthy(data[r])
    THEN /\ ResJson(r, 200, data[r])
         /\ escaped' = [escaped EXCEPT ![r] = ResJsonThrows(r, data[r])]
         /\ pc' = [pc EXCEPT ![r] =
                     IF ResJsonThrows(r, data[r]) THEN "rejected" ELSE "done"]
    ELSE /\ pc' = [pc EXCEPT ![r] = "done"]
         /\ UNCHANGED <<sent, attempts, escaped>>

HandlerContinues(r) ==
    /\ alive
    /\ UNCHANGED evars
    /\ pc[r] = "returned"
    /\ TmdbRelay(r)
    /\ UNCHANGED <<alive, kind, input, upstream, data, calls>>

\* The rejected promise of a handler is handled by nobody in this file:
\* depending on the runtime the process terminates or goes on.
UnhandledRejection(r) ==
    /\ alive
    /\ UNCHANGED evars
    /\ pc[r] = "rejected"
    /\ \E survives \in BOOLEAN : alive' = survives
    /\ pc' = [pc EXCEPT ![r] = "done"]
    /\ UNCHANGED <<kind, input, upstream, data, sent, attempts, calls, escaped>>

\* ------------------------------------------------ /api/datastrax/library

\* InvalidQuery without its typeof test.
InvalidQuery_OnlyFalsy(query) == ~Truthy(query)

\* if (!query || typeof query !== "string")
InvalidQuery(query) == ~Truthy(query) \/ TypeOf(query) # "string"

\* FindOptions without its projection of the vector field.
FindOptions_NoProjection(query) ==
    [vectorize |-> query, limit |-> Limit, projection |-> [vector |-> 1]]

\* The options object passed to collection.find.
FindOptions(query) ==
    [vectorize |-> query, limit |-> Limit, projection |-> [vector |-> 0]]

\* What the vector store answers for a query matching n documents: at most
\* options.limit records, without the vector field when the projection
\* excludes it.
StoreFind(n, options) ==
    [type |-> "object",
     count |-> IF n < options.limit THEN n ELSE options.limit,
     hasVector |-> options.projection.vector # 0]

\* app.post("/api/datastrax/library"): validation, then collection.find.
LibraryValidate(r, query) ==
    IF InvalidQuery(query)
    THEN /\ ResJson(r, 400, ErrorBody("Query provided is not a string."))
         /\ pc' = [pc EXCEPT ![r] = "done"]
         /\ UNCHANGED calls
    ELSE /\ calls' = [calls EXCEPT ![r] = Append(@, "store")]
         /\ pc' = [pc EXCEPT ![r] = "find"]
         /\ UNCHANGED <<sent, attempts>>

LibraryRequest(r) ==
    /\ alive
    /\ UNCHANGED evars
    /\ pc[r] = "idle"
    /\ \E query \in Expressions :
          /\ input' = [input EXCEPT ![r] = query]
          /\ LibraryValidate(r, query)
    /\ kind' = [kind EXCEPT ![r] = "library"]
    /\ UNCHANGED <<alive, upstream, data, escaped>>

\* The library handler without its try/catch: the store's error leaves the
\* handler.
LibraryCatch_NoCatch(r, msg) ==
    /\ upstream' = [upstream EXCEPT ![r] = [call |-> "threw", message |-> msg]]
    /\ escaped' = [escaped EXCEPT ![r] = TRUE]
    /\ pc' = [pc EXCEPT ![r] = "rejected"]
    /\ UNCHANGED <<alive, kind, input, data, sent, attempts, calls>>

\* The library handler with a catch block that queries the store again.
LibraryCatch_Retry(r, msg) ==
    /\ upstream' = [upstream EXCEPT ![r] = [call |-> "threw", message |-> msg]]
    /\ calls' = [calls EXCEPT ![r] = Append(@, "store")]
    /\ UNCHANGED <<alive, pc, kind, input, data, sent, attempts, escaped>>

\* catch (error) of the library handler: 500 and the error's message.
LibraryCatch(r, msg) ==
    /\ upstream' = [upstream EXCEPT ![r] = [call |-> "threw", message |-> msg]]
    /\ ResJson(r, 500, ErrorBody(msg))
    /\ pc' = [pc EXCEPT ![r] = "done"]
    /\ UNCHANGED <<alive, kind, input, data, calls, escaped>>

\* await collection.find(..) rejects.
FindRejects(r) ==
    /\ alive
    /\ UNCHANGED evars
    /\ pc[r] = "find"
    /\ \E msg \in StoreErrors : LibraryCatch(r, msg)

\* res.json(data) of the library handler.
LibraryRelay(r, found) ==
    /\ upstream' = [upstream EXCEPT ![r] = [call |-> "resolved", records |-> found]]
    /\ data' = [data EXCEPT ![r] = found]
    /\ ResJson(r, 200, found)
    /\ pc' = [pc EXCEPT ![r] = "done"]
    /\ UNCHANGED <<alive, kind, input, calls, escaped>>

\* await collection.find(..) resolves.
FindResolves(r) ==
    /\ alive
    /\ UNCHANGED evars
    /\ pc[r] = "find"
    /\ \E n \in DocCounts : LibraryRelay(r, StoreFind(n, FindOptions(input[r])))

\* ------------------------------------------------------------ the server

\* One step of the handling of request r.
HandlerStep(r) ==
    \/ TmdbRequest(r)
    \/ FetchRejects(r)
    \/ FetchResolves(r)
    \/ ParseRejects(r)
    \/ ParseResolves(r)
    \/ HandlerContinues(r)
    \/ UnhandledRejection(r)
    \/ LibraryRequest(r)
    \/ FindRejects(r)
    \/ FindResolves(r)

Next == \E r \in Reqs : HandlerStep(r)

Spec == Init /\ [][Next]_vars

\* ------------------------------------------------------------ /api/embed
\* The embedding endpoint: spec.md sections 4.1, 6 and 7.

\* Largest number of strings in `texts`.
MaxTexts == 3

\* Length of the vectors the embedding provider returns.
Dim == 2

\* Numbers are exact fractions n/d in lowest terms, d > 0 (the rounding of
\* floating-point arithmetic is not modelled).
RECURSIVE Gcd(_, _)
Gcd(a, b) == IF b = 0 THEN a ELSE Gcd(b, a % b)

Abs(x) == IF x < 0 THEN -x ELSE x

Rat(n, d) ==
    LET g == Gcd(Abs(n), d) IN [n |-> n \div g, d |-> d \div g]

RatAdd(a, b) == Rat(a.n * b.d + b.n * a.d, a.d * b.d)

RatDiv(a, k) == Rat(a.n, a.d * k)

\* Components an embedding vector may hold.
Values == {Rat(1, 2), Rat(-3, 1)}

Vectors == [1..Dim -> Values]

\* The batches the provider may return for k input strings.
Batches(k) == [1..k -> Vectors]

\* Values a client may send as `texts`.
TextsInputs ==
    {JsUndefined, JsNull, JsNumber, JsText} \cup {[type |-> "object", items |-> k] : k \in 0..MaxTexts}

\* Messages of the errors the embedding provider may throw.
ProviderErrors == {"invalid api token", "too many requests", "connect ETIMEDOUT"}

IsArray(v) == v.type = "object" /\ "items" \in DOMAIN v

\* InvalidTexts without its test for an empty array.
InvalidTexts_EmptyAllowed(t) == ~IsArray(t)

\* `texts` is missing, not an array, or empty.
InvalidTexts(t) == ~IsArray(t) \/ t.items = 0

\* Sum over i of batch[i][j], taken in the order of the batch.
RECURSIVE SumAt(_, _, _)
SumAt(batch, j, i) ==
    IF i = 0 THEN Rat(0, 1) ELSE RatAdd(SumAt(batch, j, i - 1), batch[i][j])

\* Average that folds each vector into a running mean of two.
RECURSIVE RunningAt(_, _, _)
RunningAt(batch, j, i) ==
    IF i = 1 THEN batch[1][j]
    ELSE RatDiv(RatAdd(RunningAt(batch, j, i - 1), batch[i][j]), 2)

Average_Running(batch) ==
    [j \in 1..Len(batch[1]) |-> RunningAt(batch, j, Len(batch))]

\* Element-wise arithmetic mean: avg[j] = (sum over i of vec[i][j]) / count.
Average(batch) ==
    [j \in 1..Len(batch[1]) |-> RatDiv(SumAt(batch, j, Len(batch)), Len(batch))]

\* The Embedding Generator's result: the one vector unchanged, or the mean.
Embedding(batch) == IF Len(batch) = 1 THEN batch[1] ELSE Average(batch)

VectorBody(v) == [type |-> "object", vector |-> v]

\* POST /api/embed: validation, then one batched call to the provider.
EmbedValidate(t) ==
    IF InvalidTexts(t)
    THEN /\ eresp' = Append(eresp, Response(400, ErrorBody("texts must be a non-empty array.")))
         /\ epc' = "done"
         /\ UNCHANGED ecalls
    ELSE /\ ecalls' = ecalls + 1
         /\ epc' = "embed"
         /\ UNCHANGED eresp

EmbedRequest ==
    /\ epc = "idle"
    /\ \E t \in TextsInputs :
          /\ texts' = t
          /\ EmbedValidate(t)
    /\ UNCHANGED <<provider, svars>>

\* The provider call fails: 500 with the provider's message.
ProviderRejects ==
    /\ epc = "embed"
    /\ \E msg \in ProviderErrors :
          /\ provider' = [call |-> "threw", message |-> msg]
          /\ eresp' = Append(eresp, Response(500, ErrorBody(msg)))
    /\ epc' = "done"
    /\ UNCHANGED <<texts, ecalls, svars>>

\* The provider returns one vector per input string: the result is sent.
ProviderResolves ==
    /\ epc = "embed"
    /\ \E batch \in Batches(texts.items) :
          /\ provider' = [call |-> "resolved", batch |-> batch]
          /\ eresp' = Append(eresp, Response(200, VectorBody(Embedding(batch))))
    /\ epc' = "done"
    /\ UNCHANGED <<texts, ecalls, svars>>

NextEmbed ==
    \/ EmbedRequest
    \/ ProviderRejects
    \/ ProviderResolves

SpecEmbed == Init /\ [][NextEmbed]_vars

\* ---------------------------------------------------------- properties

Range(s) == {s[i] : i \in DOMAIN s}

IsLibrary(r) == kind[r] = "library"
IsTmdb(r) == kind[r] = "tmdb"

\* C1: a library request whose `expression` is missing or not a string is
\* answered with exactly one response, of status 400 and a body {error: ..},
\* and no query is issued to the vector store for it.
C1_InvalidExpressionRejected ==
    \A r \in Reqs :
        IsLibrary(r) /\ TypeOf(input[r]) # "string" =>
            /\ Len(sent[r]) = 1
            /\ sent[r][1].status = 400
            /\ DOMAIN sent[r][1].body = {"error"}
            /\ "store" \notin Range(calls[r])

C1_Witness ==
    \E r \in Reqs :
        /\ IsLibrary(r)
        /\ input[r] = JsNumber
        /\ Len(sent[r]) = 1
        /\ sent[r][1].status = 400

\* C2: when the store query of a valid library request fails, the client
\* gets exactly one response, 500 with {error: <the store's message>}; the
\* handler completes without an escaping exception, so the failure does not
\* stop the process.
C2_StoreFailureIs500 ==
    \A r \in Reqs :
        IsLibrary(r) /\ upstream[r].call = "threw" =>
            /\ ~InvalidQuery(input[r])
            /\ sent[r] = <<Response(500, ErrorBody(upstream[r].message))>>
            /\ pc[r] = "done"
            /\ ~escaped[r]
            /\ (~alive => \E q \in Reqs \ {r} : escaped[q])

C2_Witness ==
    \E r \in Reqs :
        /\ IsLibrary(r)
        /\ upstream[r].call = "threw"
        /\ upstream[r].message = "Invalid filter"
        /\ Len(sent[r]) = 1
        /\ \E q \in Reqs : q # r /\ pc[q] = "idle" /\ ENABLED LibraryRequest(q)

\* C3: after a successful store query the one response sent is the store's
\* result, which holds at most `limit` records (the limit passed with the
\* query) and no vector field.
C3_RelayedResultBounded ==
    \A r \in Reqs :
        IsLibrary(r) /\ upstream[r].call = "resolved" =>
            /\ sent[r] = <<Response(200, upstream[r].records)>>
            /\ sent[r][1].body.count <= FindOptions(input[r]).limit
            /\ ~sent[r][1].body.hasVector

C3_Witness ==
    \E r \in Reqs :
        /\ IsLibrary(r)
        /\ upstream[r].call = "resolved"
        /\ Len(sent[r]) = 1
        /\ sent[r][1].body.count = Limit

\* C4: an /api/embed request whose `texts` is missing, not an array or an
\* empty array gets 400 with an error body and causes no provider call; a
\* valid request whose provider call fails gets 500 with {error: <message>}.
C4_EmbedErrors ==
    /\ epc # "idle" /\ (~IsArray(texts) \/ texts.items = 0) =>
          /\ Len(eresp) = 1
          /\ eresp[1].status = 400
          /\ DOMAIN eresp[1].body = {"error"}
          /\ ecalls = 0
    /\ provider.call = "threw" =>
          eresp = <<Response(500, ErrorBody(provider.message))>>

C4_Witness ==
    /\ texts = JsArray
    /\ Len(eresp) = 1
    /\ eresp[1].status = 400

\* The common denominator of column j of a batch, and the column's sum over
\* that denominator.
RECURSIVE DenProduct(_, _, _)
DenProduct(batch, j, i) ==
    IF i = 0 THEN 1 ELSE batch[i][j].d * DenProduct(batch, j, i - 1)

RECURSIVE NumSum(_, _, _)
NumSum(batch, j, i) ==
    IF i > Len(batch) THEN 0
    ELSE batch[i][j].n * (DenProduct(batch, j, Len(batch)) \div batch[i][j].d)
         + NumSum(batch, j, i + 1)

\* The reorderings of a batch of k vectors.
Reorderings == [k \in 1..MaxTexts |-> Permutations(1..k)]

Reordered(batch, p) == [i \in 1..Len(batch) |-> batch[p[i]]]

C6_OneResponseNoEscape ==
    \A r \in Reqs : attempts[r] <= 1 /\ ~escaped[r]

\* C7: a library request that passes validation makes exactly one call, to
\* the vector store, never to the embedding provider, and the call is made
\* before any response is sent and never repeated.
C7_OneStoreCall ==
    \A r \in Reqs :
        IsLibrary(r) /\ ~InvalidQuery(input[r]) => calls[r] = <<"store">>

C7_Witness ==
    \E r \in Reqs :
        /\ IsLibrary(r)
        /\ ~InvalidQuery(input[r])
        /\ upstream[r].call = "threw"
        /\ pc[r] = "done"
        /\ Len(sent[r]) = 1

\* C8: a finished TMDB request has given its client: the upstream status S
\* with {error: <upstream message, or "HTTP error: S">} when the upstream
\* answered non-OK; 500 with the generic message when fetch or the JSON
\* parsing threw; the upstream JSON unchanged when the upstream answered OK.
C8_TmdbPassThrough ==
    \A r \in Reqs :
        IsTmdb(r) /\ pc[r] = "done" =>
            CASE upstream[r].call \in {"threw", "unparsable"} ->
                    /\ Len(sent[r]) >= 1
                    /\ sent[r][1] = Response(500, ErrorBody(ServerErrorMsg))
              [] upstream[r].call = "parsed" /\ ~Ok(upstream[r].status) ->
                    /\ Len(sent[r]) >= 1
                    /\ sent[r][1] =
                          Response(upstream[r].status,
                                   ErrorBody(ErrorMessage(upstream[r].json, upstream[r].status)))
              [] OTHER ->
                    /\ Len(sent[r]) >= 1
                    /\ sent[r][1] = Response(200, upstream[r].json)

\* The response a request is due, from its own input and the outcome of its
\* own external call.
OwnResponse(r) ==
    CASE IsLibrary(r) /\ upstream[r].call = "none" ->
            Response(400, ErrorBody("Query provided is not a string."))
      [] IsLibrary(r) /\ upstream[r].call = "threw" ->
            Response(500, ErrorBody(upstream[r].message))
      [] IsLibrary(r) /\ upstream[r].call = "resolved" ->
            Response(200, upstream[r].records)
      [] IsTmdb(r) /\ upstream[r].call \in {"threw", "unparsable"} ->
            Response(500, ErrorBody(ServerErrorMsg))
      [] IsTmdb(r) /\ upstream[r].call = "parsed" /\ ~Ok(upstream[r].status) ->
            Response(upstream[r].status,
                     ErrorBody(ErrorMessage(upstream[r].json, upstream[r].status)))
      [] OTHER -> Response(200, upstream[r].json)

InFlight(r) == pc[r] \notin {"idle", "done"}

\* C9: whatever the other requests do, a request that is being handled can
\* take its next step (it waits for no other request, and nothing another
\* handler wrote stops it), and the response it gets is the one due from its
\* own input and its own external call.
C9_RequestsIndependent ==
    \A r \in Reqs :
        /\ InFlight(r) => ENABLED HandlerStep(r)
        /\ Len(sent[r]) >= 1 => sent[r][1] = OwnResponse(r)

\* C10: every request whose handler has finished has received a response,
\* whatever JSON value the external service returned.
C10_FinishedIsAnswered ==
    \A r \in Reqs : pc[r] = "done" => Len(sent[r]) >= 1

====
